---- MODULE Spec2Model ----
(***************************************************************************)
(* Model of scripts/process_data.py: the five pipelines                    *)
(* (ProcessImages.main, ProcessVideo.main, ProcessInsta360.main,           *)
(* ProcessRecord3D.main, ProcessPolycam.main) with the frame sampler,      *)
(* copy_images, copy_images_list, convert_video_to_images,                 *)
(* convert_insta360_to_images, downscale_images, colmap_to_json,           *)
(* opensfm_to_json, record3d_to_json, polycam_to_json and                  *)
(* get_matching_summary.  Spec runs the images, Record3D and Polycam       *)
(* pipelines on up to MaxN images with the default options, SpecOptions    *)
(* runs all five on up to MaxSmall images with the options drawn, and      *)
(* SpecFn applies a single function to one input.                          *)
(*                                                                         *)
(* A source file is a record [stem, copy, suffix]: copy = 0 stands for the *)
(* file name "<stem><suffix>", copy = c > 0 for "<stem>(c)<suffix>".  A    *)
(* file of images/ is a record [digits, suffix] standing for               *)
(* "frame_<digits><suffix>".  Poses are carried as tags naming where they  *)
(* were read from (the stem of the camera JSON, the position in the        *)
(* metadata pose array).                                                   *)
(***************************************************************************)
EXTENDS Integers, Sequences, FiniteSets, TLC

VARIABLES pipeline, sfm_method, skip_colmap, pc, error, data_dir, poses,
          max_dataset_size, min_blur_score, num_downscales, idx,
          image_filenames, images_dir, tiers, cameras, reconstruction,
          transforms_json, summary, call, result, camera_type,
          use_uncorrected_images, corrected_images, intrinsics, videos,
          singular_poses, crop_border_pixels, cropped, verbose, missing,
          returncode

vars == <<pipeline, sfm_method, skip_colmap, pc, error, data_dir, poses,
          max_dataset_size, min_blur_score, num_downscales, idx,
          image_filenames, images_dir, tiers, cameras, reconstruction,
          transforms_json, summary, call, result, camera_type,
          use_uncorrected_images, corrected_images, intrinsics, videos,
          singular_poses, crop_border_pixels, cropped, verbose, missing,
          returncode>>

\* The command line options and the input files of a run: no step writes them.
inputs == <<pipeline, sfm_method, skip_colmap, data_dir, poses,
            max_dataset_size, min_blur_score, num_downscales, camera_type,
            use_uncorrected_images, corrected_images, intrinsics, videos,
            singular_poses, verbose, missing>>

\* A single call of one of the module's functions outside a run, and what it
\* returned or raised; both stay empty during a run of a pipeline.
fn == <<call, result>>

\* The crop margin of ProcessPolycam and the crop done in images/.
crop == <<crop_border_pixels, cropped>>

\* The state of a run of a pipeline.
run == <<pipeline, sfm_method, skip_colmap, pc, error, data_dir, poses,
         max_dataset_size, min_blur_score, num_downscales, idx,
         image_filenames, images_dir, tiers, cameras, reconstruction,
         transforms_json, summary, camera_type, use_uncorrected_images,
         corrected_images, intrinsics, videos, singular_poses,
         crop_border_pixels, cropped, verbose, missing, returncode>>

(* ------------------------------ bounds --------------------------------- *)

\* Largest number of numbered images in the source directory.
MaxN == 6

\* Largest num_downscales tried.
MaxDownscales == 2

(* ------------------------------ inputs --------------------------------- *)

Suffixes == {".jpg", ".png"}

\* The stem of the p-th (0-indexed) numbered image: stems are increasing
\* but not contiguous, so a position is never its own stem.
Stem(p) == 2 * p + 3

SourceFile(p, sfx) == [stem |-> Stem(p), copy |-> 0, suffix |-> sfx]

\* A duplicate such as "3(1).jpg", which Record3D exports may contain.
DuplicateFile(sfx) == [stem |-> Stem(0), copy |-> 1, suffix |-> sfx]

\* A file of an image folder that is not an image.
TextFile == [stem |-> Stem(0), copy |-> 0, suffix |-> ".txt"]

\* Values of --max_dataset_size: -1 is "use all images".
MaxDatasetSizes == (-2) .. (MaxN + 1)

\* Values of --min_blur_score and of a camera JSON's blur_score.
MinBlurScores == {10, 25}

BlurOptions ==
    {[has_blur_score |-> FALSE, blur_score |-> 0]}
    \cup {[has_blur_score |-> TRUE, blur_score |-> b] : b \in {10, 30}}

\* The camera JSON of a Polycam keyframe, as far as the intrinsics go.
PolycamExample ==
    [fx |-> 1500, fy |-> 1501, cx |-> 960, cy |-> 540, width |-> 1920,
     height |-> 1080]

(* ------------------------------ helpers -------------------------------- *)

\* str.isdigit() of a source file's stem.
IsDigit(f) == f.copy = 0

\* sorted(filenames, key=lambda fn: int(fn.stem)) for files with distinct
\* numeric stems.
RECURSIVE SortedByStem(_)
SortedByStem(S) ==
    IF S = {} THEN <<>>
    ELSE LET m == CHOOSE f \in S : \A g \in S : f.stem <= g.stem
         IN  <<m>> \o SortedByStem(S \ {m})

\* str(n) as a sequence of decimal digits.
RECURSIVE Digits(_)
Digits(n) == IF n < 10 THEN <<n>> ELSE Digits(n \div 10) \o <<n % 10>>

\* The order of str on two stems written in decimal, and
\* sorted(paths) for paths that differ in their stem.
RECURSIVE LexLess(_, _)
LexLess(a, b) ==
    IF a = <<>> THEN b # <<>>
    ELSE IF b = <<>> THEN FALSE
    ELSE IF Head(a) # Head(b) THEN Head(a) < Head(b)
    ELSE LexLess(Tail(a), Tail(b))

RECURSIVE SortedByPath(_)
SortedByPath(S) ==
    IF S = {} THEN <<>>
    ELSE LET m == CHOOSE f \in S :
                     \A g \in S \ {f} : LexLess(Digits(f.stem), Digits(g.stem))
         IN  <<m>> \o SortedByPath(S \ {m})

\* np.arange(n): 0, 1, ..., n-1.
np_arange(n) == [i \in 1 .. n |-> i - 1]

\* np.linspace(0, stop, num) as exact fractions [n, d]: num values
\* i * stop / (num - 1), the last one set to stop; a single value 0 when
\* num = 1.  (IEEE doubles give the same rounded indices for every
\* num < N <= 25.)
np_linspace_no_endpoint(stop, num) ==
    [i \in 1 .. num |-> [n |-> (i - 1) * stop, d |-> num]]

np_linspace(stop, num) ==
    [i \in 1 .. num |->
        IF num = 1 THEN [n |-> 0, d |-> 1]
        ELSE IF i = num THEN [n |-> stop, d |-> 1]
        ELSE [n |-> (i - 1) * stop, d |-> num - 1]]

\* np.round of a non-negative fraction: to nearest, ties to even.
np_round_to_even(q) ==
    LET f == q.n \div q.d
    IN  IF q.n % q.d = 0 \/ f % 2 = 0 THEN f ELSE f + 1

np_round(q) ==
    LET f == q.n \div q.d
        r == q.n % q.d
    IN  IF 2 * r < q.d THEN f
        ELSE IF 2 * r > q.d THEN f + 1
        ELSE IF f % 2 = 0 THEN f ELSE f + 1

\* idx of ProcessRecord3D.main / ProcessPolycam.main for num_images images;
\* defined for max_size >= -1 (a smaller value makes np.linspace raise).
SamplerIdx_no_use_all(num_images, max_size) ==
    IF num_images > max_size
    THEN LET y == np_linspace(num_images - 1, max_size)
         IN  [i \in 1 .. max_size |-> np_round(y[i])]
    ELSE np_arange(num_images)

SamplerIdx(num_images, max_size) ==
    IF max_size # -1 /\ num_images > max_size
    THEN LET y == np_linspace(num_images - 1, max_size)
         IN  [i \in 1 .. max_size |-> np_round(y[i])]
    ELSE np_arange(num_images)

\* f"{n:05d}": the decimal digits padded with zeros to five.
RECURSIVE ZeroPad(_, _)
ZeroPad(ds, width) == IF Len(ds) >= width THEN ds ELSE ZeroPad(<<0>> \o ds, width)

Format05d(n) == ZeroPad(Digits(n), 5)

\* image_dir / f"frame_{n:05d}{suffix}"
FrameName(n, sfx) == [digits |-> Format05d(n), suffix |-> sfx]

NoFunction == [x \in {} |-> 0]

\* The value of call during a run of a pipeline.
NoCall == [op |-> "none"]

(* Camera intrinsics.  A camera record is a function from its keys to
   integers; a float of the descriptor is a fraction [n, d]. *)

\* float(x) of an integer x.
Float(x) == [n |-> x, d |-> 1]

\* 0.5 * x
Half(x) == [n |-> x, d |-> 2]

\* CameraModel and CAMERA_MODELS.
CameraModel == {"OPENCV", "OPENCV_FISHEYE", "EQUIRECTANGULAR"}

CAMERA_MODELS ==
    [type \in {"perspective", "fisheye", "equirectangular"} |->
        CASE type = "perspective" -> "OPENCV"
          [] type = "fisheye" -> "OPENCV_FISHEYE"
          [] type = "equirectangular" -> "EQUIRECTANGULAR"]

\* The keys out.update adds for a camera model.
UpdateKeys(camera_model) ==
    CASE camera_model = "OPENCV" -> {"k1", "k2", "p1", "p2"}
      [] camera_model = "OPENCV_FISHEYE" -> {"k1", "k2", "k3", "k4"}
      [] OTHER -> {}

\* The focal length of a camera record that has none.
FocalFallback_width(cam) == Float(cam["width"])

FocalFallback(cam) == Float(cam["height"])

\* out of opensfm_to_json without "frames": raised is "KeyError" when the
\* camera record lacks a key that is read without a test.
OpensfmOut(cam, camera_model) ==
    IF ~({"width", "height"} \cup UpdateKeys(camera_model) \subseteq DOMAIN cam)
    THEN [raised |-> "KeyError"]
    ELSE [raised |-> "none",
          out |-> [key \in {"fl_x", "fl_y", "cx", "cy", "w", "h", "camera_model"}
                           \cup UpdateKeys(camera_model) |->
                      CASE key = "fl_x" -> IF "focal_x" \in DOMAIN cam
                                           THEN Float(cam["focal_x"])
                                           ELSE FocalFallback(cam)
                        [] key = "fl_y" -> IF "focal_y" \in DOMAIN cam
                                           THEN Float(cam["focal_y"])
                                           ELSE FocalFallback(cam)
                        [] key = "cx" -> IF "c_x" \in DOMAIN cam
                                         THEN Float(cam["c_x"])
                                         ELSE Half(cam["width"])
                        [] key = "cy" -> IF "c_y" \in DOMAIN cam
                                         THEN Float(cam["c_y"])
                                         ELSE Half(cam["height"])
                        [] key = "w" -> cam["width"]
                        [] key = "h" -> cam["height"]
                        [] key = "camera_model" -> camera_model
                        [] OTHER -> Float(cam[key])]]

\* The value a camera record of reconstruction.json has under a key, when
\* it has the key.
CamValue ==
    [key \in {"width", "height", "focal_x", "focal_y", "c_x", "c_y", "k1", "k2", "k3",
              "k4", "p1", "p2"} |->
        CASE key = "width" -> 640
          [] key = "height" -> 481
          [] key = "focal_x" -> 500
          [] key = "focal_y" -> 510
          [] key = "c_x" -> 322
          [] key = "c_y" -> 239
          [] key = "k1" -> 1
          [] key = "k2" -> 2
          [] key = "k3" -> 3
          [] key = "k4" -> 4
          [] key = "p1" -> 5
          [] key = "p2" -> 6]

\* The camera record OpenSfM writes for the projection type run_opensfm
\* asks for: brown, fisheye_opencv or equirectangular.
OpensfmCamera(camera_model) ==
    LET keys == CASE camera_model = "OPENCV" ->
                         {"width", "height", "focal_x", "focal_y", "c_x", "c_y",
                          "k1", "k2", "p1", "p2", "k3"}
                  [] camera_model = "OPENCV_FISHEYE" ->
                         {"width", "height", "focal_x", "focal_y", "c_x", "c_y",
                          "k1", "k2", "k3", "k4"}
                  [] OTHER -> {"width", "height"}
    IN  [key \in keys |-> CamValue[key]]

\* cameras[1] of a COLMAP model with eight parameters.
ColmapCamera ==
    [params |-> <<500, 510, 322, 239, 1, 2, 5, 6>>, width |-> 640, height |-> 481]

\* out of colmap_to_json without "frames".
ColmapOut(camera, camera_model) ==
    LET camera_params == camera.params
        updated == CASE camera_model = "OPENCV" -> <<"k1", "k2", "p1", "p2">>
                     [] camera_model = "OPENCV_FISHEYE" -> <<"k1", "k2", "k3", "k4">>
                     [] OTHER -> <<>>
    IN  [key \in {"fl_x", "fl_y", "cx", "cy", "w", "h", "camera_model"}
                 \cup {updated[i] : i \in 1 .. Len(updated)} |->
            CASE key = "fl_x" -> Float(camera_params[1])
              [] key = "fl_y" -> Float(camera_params[2])
              [] key = "cx" -> Float(camera_params[3])
              [] key = "cy" -> Float(camera_params[4])
              [] key = "w" -> camera.width
              [] key = "h" -> camera.height
              [] key = "camera_model" -> camera_model
              [] OTHER -> Float(camera_params[
                              4 + CHOOSE i \in 1 .. Len(updated) : updated[i] = key])]

\* metadata.json of a Record3D capture, as far as the intrinsics go.
Record3dMetadata ==
    [K |-> <<1400, 0, 0, 0, 1400, 0, 480, 360, 1>>, w |-> 960, h |-> 720]

\* out of record3d_to_json without "frames": K[0, 0] of the reshaped and
\* transposed K is its first entry.
Record3dOut(metadata_dict) ==
    [fl_x |-> Float(metadata_dict.K[1]),
     fl_y |-> Float(metadata_dict.K[1]),
     cx |-> Half(metadata_dict.w),
     cy |-> Half(metadata_dict.h),
     w |-> metadata_dict.w,
     h |-> metadata_dict.h,
     camera_model |-> CAMERA_MODELS["perspective"]]

\* get_matching_summary: the message is named by its band.  match_ratio is
\* the quotient of the two counts, compared with 1, 0.4 and 0.8 in this
\* order; the division raises when num_intial_frames is 0.
get_matching_summary_inclusive(num_intial_frames, num_matched_frames) ==
    IF num_intial_frames = 0 THEN [raised |-> "ZeroDivisionError"]
    ELSE IF num_matched_frames = num_intial_frames
    THEN [raised |-> "none", message |-> "found poses for all images"]
    ELSE IF 10 * num_matched_frames <= 4 * num_intial_frames
    THEN [raised |-> "none", message |-> "This is low"]
    ELSE IF 10 * num_matched_frames <= 8 * num_intial_frames
    THEN [raised |-> "none", message |-> "This isn't great, but may be ok"]
    ELSE [raised |-> "none", message |-> "found poses for percent of the images"]

get_matching_summary(num_intial_frames, num_matched_frames) ==
    IF num_intial_frames = 0 THEN [raised |-> "ZeroDivisionError"]
    ELSE IF num_matched_frames = num_intial_frames
    THEN [raised |-> "none", message |-> "found poses for all images"]
    ELSE IF 10 * num_matched_frames < 4 * num_intial_frames
    THEN [raised |-> "none", message |-> "This is low"]
    ELSE IF 10 * num_matched_frames < 8 * num_intial_frames
    THEN [raised |-> "none", message |-> "This isn't great, but may be ok"]
    ELSE [raised |-> "none", message |-> "found poses for percent of the images"]

(* ------------------------------ state ---------------------------------- *)

Init ==
    /\ pipeline \in {"images", "record3d", "polycam"}
    /\ sfm_method \in (IF pipeline = "images" THEN {"colmap", "OpenSfM"} ELSE {"none"})
    /\ skip_colmap \in (IF sfm_method = "colmap" THEN BOOLEAN ELSE {FALSE})
    /\ pc = "start"
    /\ error = "none"
    /\ \E n \in 0 .. MaxN, sfx \in Suffixes,
          extra \in (IF pipeline = "polycam" THEN {FALSE} ELSE BOOLEAN) :
          /\ data_dir = {SourceFile(p, sfx) : p \in 0 .. n - 1}
                        \cup (IF extra /\ n > 0
                              THEN IF pipeline = "record3d"
                                   THEN {DuplicateFile(sfx)} ELSE {TextFile}
                              ELSE {})
          /\ poses \in (IF pipeline = "record3d"
                        THEN {np_arange(k) : k \in {m \in {n - 1, n, n + 1} : m >= 0}}
                        ELSE {<<>>})
    /\ max_dataset_size \in (IF pipeline = "images" THEN {-1} ELSE MaxDatasetSizes)
    /\ min_blur_score \in (IF pipeline = "polycam" THEN MinBlurScores ELSE {0})
    /\ num_downscales \in {0, MaxDownscales}
    /\ idx = <<>>
    /\ image_filenames = <<>>
    /\ images_dir = NoFunction
    /\ tiers = NoFunction
    /\ cameras = NoFunction
    /\ reconstruction = <<>>
    /\ transforms_json = <<>>
    /\ summary = <<>>
    /\ call = NoCall
    /\ result = <<>>
    /\ camera_type = "perspective"
    /\ use_uncorrected_images = FALSE
    /\ corrected_images = (pipeline = "polycam")
    /\ intrinsics = CASE pipeline = "polycam" -> PolycamExample
                       [] pipeline = "record3d" -> Record3dMetadata
                       [] OTHER -> NoFunction
    /\ videos = <<>>
    /\ singular_poses = {}
    /\ crop_border_pixels = IF pipeline = "polycam" THEN <<15>> ELSE <<>>
    /\ cropped = <<>>
    /\ verbose = FALSE
    /\ missing = "none"
    /\ returncode = 0

Fail(err) ==
    /\ pc' = "failed"
    /\ error' = err

\* run_command when the command returns non-zero: it prints
\* out.stderr.decode("utf-8") and calls sys.exit(1); with verbose the output
\* was not captured, out.stderr is None and the decode raises
\* AttributeError.
RunCommandFailed(verbose_arg) ==
    /\ returncode' = 1
    /\ Fail(IF verbose_arg THEN "AttributeError" ELSE "exit")

(* ------------------------------ actions -------------------------------- *)

\* The listing, sort and sampling at the head of main.  ProcessPolycam.main
\* first chooses between the corrected and the raw images, and sets
\* crop_border_pixels to 0 when it takes the raw ones.
Sample ==
    /\ pc = "start"
    /\ pipeline \in {"record3d", "polycam"}
    /\ crop_border_pixels' =
           IF pipeline = "polycam" /\ ~(corrected_images /\ ~use_uncorrected_images)
           THEN <<0>> ELSE crop_border_pixels
    /\ LET filenames == IF pipeline = "record3d"
                        THEN SortedByStem({f \in data_dir : IsDigit(f)})
                        ELSE SortedByStem(data_dir)
           num_images == Len(filenames)
       IN  IF missing = "images"
              \/ (max_dataset_size # -1 /\ num_images > max_dataset_size
                     /\ max_dataset_size < 0)
           THEN /\ Fail("ValueError")
                /\ UNCHANGED <<idx, image_filenames>>
           ELSE /\ idx' = SamplerIdx(num_images, max_dataset_size)
                /\ image_filenames' = [k \in 1 .. Len(idx') |-> filenames[idx'[k] + 1]]
                /\ pc' = "sampled"
                /\ UNCHANGED error
    /\ UNCHANGED <<inputs, fn, cropped, returncode, reconstruction, images_dir,
                   tiers, cameras, transforms_json, summary>>

\* copy_images_list: image_paths[k] (0-indexed) is copied to
\* frame_{k+1:05d}<suffix>, a later copy overwriting an earlier one of the
\* same name; with crop_border_pixels set (Polycam always, Record3D never)
\* one ffmpeg command then crops the copies in place.
CopiedName_by_count(image_paths, k) ==
    FrameName(Len(image_paths), image_paths[k].suffix)

CopiedName(image_paths, k) == FrameName(k, image_paths[k].suffix)

CopiedFiles(image_paths) ==
    [name \in {CopiedName(image_paths, k) : k \in 1 .. Len(image_paths)} |->
        LET last == CHOOSE k \in 1 .. Len(image_paths) :
                        /\ CopiedName(image_paths, k) = name
                        /\ \A j \in 1 .. Len(image_paths) :
                              CopiedName(image_paths, j) = name => j <= k
        IN  image_paths[last]]

\* One call of copy_images_list; margin is <<>> when crop_border_pixels is
\* None and <<m>> otherwise, in which case image_paths[0] is read and ffmpeg
\* crops the files frame_%05d<file_type> of images/ in place, run with
\* copy_images_list's own verbose.
CopyImagesListCall(image_paths, margin, verbose_arg) ==
    /\ images_dir' = IF Len(image_paths) > 0
                     THEN CopiedFiles(image_paths)
                     ELSE images_dir
    /\ IF margin # <<>>
       THEN IF Len(image_paths) = 0
            THEN Fail("IndexError") /\ UNCHANGED <<cropped, returncode>>
            ELSE \E code \in {0, 1} :
                    IF code # 0
                    THEN RunCommandFailed(verbose_arg) /\ UNCHANGED cropped
                    ELSE /\ cropped' = <<[file_type |-> image_paths[1].suffix,
                                          margin |-> margin[1]]>>
                         /\ pc' = "copied"
                         /\ UNCHANGED <<error, returncode>>
       ELSE pc' = "copied" /\ UNCHANGED <<error, cropped, returncode>>

\* The copy step of ProcessRecord3D.main (no crop_border_pixels) and of
\* ProcessPolycam.main (crop_border_pixels=self.crop_border_pixels).
CopyImagesList ==
    /\ pc = "sampled"
    /\ CopyImagesListCall(image_filenames, crop_border_pixels, verbose)
    /\ UNCHANGED <<inputs, fn, crop_border_pixels, reconstruction, idx,
                   image_filenames, tiers, cameras, transforms_json, summary>>

\* copy_images, the first step of ProcessImages.main: the image files of
\* the folder in sorted order go to copy_images_list, which receives
\* verbose, a bool, in the position of crop_border_pixels, and no verbose
\* of its own; 2 * False is 0 and 2 * True is 2.
allowed_exts == {".jpg", ".jpeg", ".png", ".tif", ".tiff"}

CopyImages ==
    /\ pc = "start"
    /\ pipeline = "images"
    /\ LET image_paths == SortedByPath({f \in data_dir : f.suffix \in allowed_exts})
       IN  /\ image_filenames' = image_paths
           /\ CopyImagesListCall(image_paths, <<IF verbose THEN 1 ELSE 0>>, FALSE)
    /\ UNCHANGED <<inputs, fn, crop_border_pixels, reconstruction, idx, tiers,
                   cameras, transforms_json, summary>>

\* int() of the digits of a file name.
RECURSIVE FrameNumber(_)
FrameNumber(digits) ==
    IF digits = <<>> THEN 0
    ELSE 10 * FrameNumber(SubSeq(digits, 1, Len(digits) - 1)) + digits[Len(digits)]

\* The numbers k that have a file frame_<k:05d><file_type> in images/.
Numbered(file_type) ==
    {FrameNumber(name.digits) : name \in {f \in DOMAIN images_dir : f.suffix = file_type}}

\* The files ffmpeg reads for -i images/frame_%05d<file_type>: the
\* sequence starts at the first number of 0 .. 4 that has a file and ends
\* before the first number that has none; without a start ffmpeg returns
\* non-zero.
ImageSequence(file_type) ==
    IF Numbered(file_type) \cap (0 .. 4) = {} THEN {}
    ELSE LET start == CHOOSE k \in Numbered(file_type) \cap (0 .. 4) :
                          \A j \in Numbered(file_type) \cap (0 .. 4) : k <= j
         IN  {k \in Numbered(file_type) :
                 k >= start /\ \A j \in start .. k : j \in Numbered(file_type)}

\* The files ffmpeg writes for images_<factor>/frame_%05d<file_type>: one
\* for each file it read, numbered from 1.
TierFiles(file_type) ==
    {FrameName(j, file_type) : j \in 1 .. Cardinality(ImageSequence(file_type))}

\* downscale_images: for each factor 2^i in turn, make images_<factor>,
\* take the suffix of the first frame_* file of images/ that glob lists
\* and run one ffmpeg command from images/ into it.  completed is the
\* number of commands that succeeded before the run stopped.
DownscaleImages ==
    /\ pc = "copied"
    /\ IF num_downscales = 0
       THEN /\ tiers' = tiers
            /\ pc' = "downscaled"
            /\ UNCHANGED <<error, returncode>>
       ELSE IF DOMAIN images_dir = {}
       THEN /\ tiers' = [factor \in {2} |-> {}]
            /\ Fail("StopIteration")
            /\ UNCHANGED returncode
       ELSE \E file_type \in {name.suffix : name \in DOMAIN images_dir} :
            \E completed \in (IF ImageSequence(file_type) = {}
                               THEN {0} ELSE 0 .. num_downscales) :
               /\ tiers' = [factor \in {2 ^ i : i \in 1 .. completed}
                                       \cup {2 ^ i : i \in (completed + 1)
                                                .. (IF completed < num_downscales
                                                    THEN completed + 1 ELSE 0)} |->
                               IF factor <= 2 ^ completed
                               THEN TierFiles(file_type) ELSE {}]
               /\ IF completed < num_downscales
                  THEN RunCommandFailed(verbose)
                  ELSE pc' = "downscaled" /\ UNCHANGED <<error, returncode>>
    /\ UNCHANGED <<inputs, fn, crop, reconstruction, idx, image_filenames,
                   images_dir, cameras, transforms_json, summary>>

\* The statement after the call of downscale_images in a main is reached
\* when the call has returned.
DownscaleReturned_or_running == pc \in {"copied", "downscaled"}

DownscaleReturned == pc = "downscaled"

\* copied_image_paths of main: Path("images/" + name) for each copy.
CopiedImagePaths(dir_prefix) ==
    [k \in 1 .. Len(image_filenames) |->
        [dir |-> dir_prefix, name |-> CopiedName(image_filenames, k)]]

\* record3d_to_json(copied_image_paths, metadata_path, output_dir, idx):
\* poses_data[:, :4] needs a pose array that is not empty, and
\* camera_to_worlds[indices] needs every index to be below its length.
Record3dFrames_unsampled_poses(images_paths, indices) ==
    [i \in 1 .. Len(images_paths) |->
        [file_path |-> images_paths[i],
         transform_matrix |-> [pose |-> poses[i]]]]

Record3dFrames(images_paths, indices) ==
    [i \in 1 .. Len(images_paths) |->
        [file_path |-> images_paths[i],
         transform_matrix |-> [pose |-> poses[indices[i] + 1]]]]

Record3dToJson ==
    /\ DownscaleReturned
    /\ pipeline = "record3d"
    /\ IF missing = "metadata"
       THEN /\ Fail("FileNotFoundError")
            /\ UNCHANGED <<transforms_json, summary>>
       ELSE IF Len(poses) = 0 \/ \E i \in 1 .. Len(idx) : idx[i] >= Len(poses)
       THEN /\ Fail("IndexError")
            /\ UNCHANGED <<transforms_json, summary>>
       ELSE /\ transforms_json' =
                   <<[frames |-> Record3dFrames(CopiedImagePaths("images/"), idx),
                      out |-> Record3dOut(intrinsics)]>>
            /\ summary' = <<[used |-> Len(image_filenames)]>>
            /\ pc' = "done"
            /\ UNCHANGED error
    /\ UNCHANGED <<inputs, fn, crop, returncode, reconstruction, idx,
                   image_filenames, images_dir, tiers, cameras>>

\* The frame loop of polycam_to_json: position i (1-indexed here, so the
\* source's i + 1) of image_filenames gives a frame unless its camera JSON
\* has a blur_score below min_blur_score.
Skipped_or_equal(cams, image_filename) ==
    /\ cams[image_filename.stem].has_blur_score
    /\ cams[image_filename.stem].blur_score <= min_blur_score

Skipped(cams, image_filename) ==
    /\ cams[image_filename.stem].has_blur_score
    /\ cams[image_filename.stem].blur_score < min_blur_score

PolycamFrame_renumbered(cams, i) ==
    [file_path |-> [dir |-> "./images/",
                    name |-> FrameName(
                        i - Cardinality({j \in 1 .. i : Skipped(cams, image_filenames[j])}),
                        image_filenames[i].suffix)],
     transform_matrix |-> [json |-> cams[image_filenames[i].stem].t]]

PolycamFrame_zero_indexed(cams, i) ==
    [file_path |-> [dir |-> "./images/",
                    name |-> FrameName(i - 1, image_filenames[i].suffix)],
     transform_matrix |-> [json |-> cams[image_filenames[i].stem].t]]

PolycamFrame(cams, i) ==
    [file_path |-> [dir |-> "./images/",
                    name |-> FrameName(i, image_filenames[i].suffix)],
     transform_matrix |-> [json |-> cams[image_filenames[i].stem].t]]

RECURSIVE PolycamFrames(_, _)
PolycamFrames(cams, upto) ==
    IF upto = 0 THEN <<>>
    ELSE IF Skipped(cams, image_filenames[upto])
         THEN PolycamFrames(cams, upto - 1)
         ELSE Append(PolycamFrames(cams, upto - 1), PolycamFrame(cams, upto))

SkippedFrames(cams) ==
    Cardinality({i \in 1 .. Len(image_filenames) : Skipped(cams, image_filenames[i])})

\* len(image_filenames) - skipped_frames, the count the exit test looks at.
RemainingFrames_unfiltered(cams) == Len(image_filenames)

RemainingFrames(cams) == Len(image_filenames) - SkippedFrames(cams)

\* data of polycam_to_json without "frames", from the camera JSON of the
\* first image and crop_border_pixels.
PolycamOut_uncropped(frame_json, margin) ==
    [fl_x |-> frame_json.fx,
     fl_y |-> frame_json.fy,
     cx |-> frame_json.cx,
     cy |-> frame_json.cy,
     w |-> frame_json.width,
     h |-> frame_json.height,
     camera_model |-> CAMERA_MODELS["perspective"],
     orientation_override |-> "none"]

PolycamOut(frame_json, margin) ==
    [fl_x |-> frame_json.fx,
     fl_y |-> frame_json.fy,
     cx |-> frame_json.cx - margin,
     cy |-> frame_json.cy - margin,
     w |-> frame_json.width - margin * 2,
     h |-> frame_json.height - margin * 2,
     camera_model |-> CAMERA_MODELS["perspective"],
     orientation_override |-> "none"]

\* The tail of ProcessPolycam.main: the num_frames check, then
\* polycam_to_json, which reads one camera JSON per image, writes
\* transforms.json and only then looks at how many frames remain.
PolycamToJson ==
    /\ DownscaleReturned
    /\ pipeline = "polycam"
    /\ IF Len(image_filenames) = 0
       THEN /\ Fail("exit")
            /\ UNCHANGED <<cameras, transforms_json, summary>>
       ELSE IF missing = "cameras"
       THEN /\ Fail("FileNotFoundError")
            /\ UNCHANGED <<cameras, transforms_json, summary>>
       ELSE \E blur \in [{f.stem : f \in {image_filenames[i] : i \in 1 .. Len(image_filenames)}}
                            -> BlurOptions] :
               LET cams == [s \in DOMAIN blur |->
                               [has_blur_score |-> blur[s].has_blur_score,
                                blur_score |-> blur[s].blur_score,
                                t |-> s]]
                   skipped_frames == SkippedFrames(cams)
               IN  /\ cameras' = cams
                   /\ transforms_json' =
                          <<[frames |-> PolycamFrames(cams, Len(image_filenames)),
                             out |-> PolycamOut(intrinsics, crop_border_pixels[1])]>>
                   /\ IF RemainingFrames(cams) = 0
                      THEN /\ Fail("exit")
                           /\ UNCHANGED summary
                      ELSE /\ summary' =
                                  <<[skipped |-> skipped_frames,
                                     final |-> Len(image_filenames) - skipped_frames]>>
                           /\ pc' = "done"
                           /\ UNCHANGED error
    /\ UNCHANGED <<inputs, fn, crop, returncode, reconstruction, idx,
                   image_filenames, images_dir, tiers>>

\* The reconstruction step of ProcessImages.main.  run_colmap (unless
\* skip_colmap) and run_opensfm run a chain of commands, and the first one
\* that returns non-zero ends the run; afterwards sparse/0/cameras.bin or
\* reconstruction.json is there or not.  A reconstruction registers some
\* of the files of images/, at least one, under their file names, in the
\* order of the ids.
Reconstructions ==
    {SelectSeq([k \in 1 .. Len(image_filenames) |-> CopiedName(image_filenames, k)],
               LAMBDA name : name \in registered) :
        registered \in SUBSET DOMAIN images_dir \ {{}}}

\* With skip_colmap the results in colmap/sparse/0 are those of an earlier
\* run, which may have registered other images than those of this run.
StaleReconstructions ==
    IF skip_colmap
    THEN {[k \in 1 .. m |-> FrameName(k, ".png")] : m \in 1 .. 2}
    ELSE {}

\* cameras[1] of the COLMAP model, or the camera record of
\* reconstruction.json.
ReconstructedCamera ==
    IF sfm_method = "colmap"
    THEN ColmapCamera
    ELSE OpensfmCamera(CAMERA_MODELS[camera_type])

\* COLMAP has no camera model named EQUIRECTANGULAR: its feature extractor
\* returns non-zero.
ReturnCodes ==
    IF sfm_method = "colmap" /\ skip_colmap THEN {0}
    ELSE IF sfm_method = "colmap" /\ camera_type = "equirectangular" THEN {1}
    ELSE {0, 1}

\* get_colmap_version runs its command with verbose=False and the other
\* commands of run_colmap with main's verbose; main calls run_opensfm
\* without verbose.
SfmVerbose == IF sfm_method = "colmap" THEN {FALSE, verbose} ELSE {FALSE}

RunSfm ==
    /\ DownscaleReturned
    /\ pipeline \in {"images", "video"}
    /\ IF sfm_method = "OpenSfM" /\ DOMAIN images_dir = {}
       THEN /\ Fail("StopIteration")
            /\ UNCHANGED <<reconstruction, returncode>>
       ELSE \E code \in ReturnCodes, verbose_arg \in SfmVerbose :
               IF code # 0
               THEN /\ RunCommandFailed(verbose_arg)
                    /\ UNCHANGED reconstruction
               ELSE /\ \/ reconstruction' = <<>>
                       \/ \E names \in Reconstructions \cup StaleReconstructions :
                             reconstruction' = <<[names |-> names,
                                                  camera |-> ReconstructedCamera]>>
                    /\ pc' = "reconstructed"
                    /\ UNCHANGED <<error, returncode>>
    /\ UNCHANGED <<inputs, fn, crop, idx, image_filenames, images_dir, tiers,
                   cameras, transforms_json, summary>>

\* Path(f"./images/{name}") as as_posix() and str() print it: pathlib drops
\* the leading "./".
PosixPath(dir, name) ==
    [dir |-> IF dir = "./images/" THEN "images/" ELSE dir, name |-> name]

\* The frame loops of colmap_to_json (images.items()) and of
\* opensfm_to_json (shots.items()): one frame per registered image.
ColmapFrames(names) ==
    [i \in 1 .. Len(names) |->
        [file_path |-> PosixPath("./images/", names[i]),
         transform_matrix |-> [image |-> names[i]]]]

OpensfmFrames(names) ==
    [i \in 1 .. Len(names) |->
        [file_path |-> PosixPath("./images/", names[i]),
         transform_matrix |-> [image |-> names[i]]]]

\* The positions, in the order of the ids, of the registered images whose
\* world-to-camera matrix has determinant 0: np.linalg.inv raises
\* LinAlgError at the first of them.
SingularRecords(names) == singular_poses \cap (1 .. Len(names))

\* The "Save transforms.json" step of ProcessImages.main and of
\* ProcessVideo.main with COLMAP: colmap_to_json, then get_matching_summary.
ColmapToJson ==
    /\ pc = "reconstructed"
    /\ sfm_method = "colmap"
    /\ IF reconstruction = <<>>
       THEN /\ pc' = "done"
            /\ UNCHANGED <<error, transforms_json, summary>>
       ELSE IF SingularRecords(reconstruction[1].names) # {}
       THEN /\ Fail("LinAlgError")
            /\ UNCHANGED <<transforms_json, summary>>
       ELSE LET num_matched_frames == Len(reconstruction[1].names)
                message == get_matching_summary(Len(image_filenames),
                                                num_matched_frames)
            IN  /\ transforms_json' =
                       <<[frames |-> ColmapFrames(reconstruction[1].names),
                          out |-> ColmapOut(reconstruction[1].camera,
                                            CAMERA_MODELS[camera_type])]>>
                /\ IF message.raised # "none"
                   THEN /\ Fail(message.raised)
                        /\ UNCHANGED summary
                   ELSE /\ summary' = <<[initial |-> Len(image_filenames),
                                         matched |-> num_matched_frames,
                                         message |-> message.message]>>
                        /\ pc' = "done"
                        /\ UNCHANGED error
    /\ UNCHANGED <<inputs, fn, crop, returncode, reconstruction, idx,
                   image_filenames, images_dir, tiers, cameras>>

\* The "Save transforms.json" step of ProcessImages.main and of
\* ProcessVideo.main with OpenSfM.
OpensfmToJson ==
    /\ pc = "reconstructed"
    /\ sfm_method = "OpenSfM"
    /\ IF reconstruction = <<>>
       THEN /\ pc' = "done"
            /\ UNCHANGED <<error, transforms_json>>
       ELSE LET out == OpensfmOut(reconstruction[1].camera, CAMERA_MODELS[camera_type])
            IN  IF out.raised # "none"
                THEN /\ Fail(out.raised)
                     /\ UNCHANGED transforms_json
                ELSE /\ transforms_json' =
                            <<[frames |-> OpensfmFrames(reconstruction[1].names),
                               out |-> out.out]>>
                     /\ pc' = "done"
                     /\ UNCHANGED error
    /\ UNCHANGED <<inputs, fn, crop, returncode, reconstruction, idx,
                   image_filenames, images_dir, tiers, cameras, summary>>

\* Frame j of a video, as a file of images/.
VideoFrame(video, j) == [video |-> video, frame |-> j]

\* The frames ffmpeg wrote, as the list the later steps count and name.
ExtractedFrames(num_final_frames) ==
    [k \in 1 .. num_final_frames |-> [stem |-> k, copy |-> 0, suffix |-> ".png"]]

\* convert_video_to_images, the first step of ProcessVideo.main: ffprobe
\* counts the frames, a count of 0 ends the run, and ffmpeg writes
\* frame_%05d.png.  videos[1].extracted is the number of files it writes.
ConvertVideoToImages ==
    /\ pc = "start"
    /\ pipeline = "video"
    /\ \E ffprobe \in {0, 1}, ffmpeg \in {0, 1} :
          IF ffprobe # 0
          THEN /\ RunCommandFailed(FALSE)
               /\ UNCHANGED <<images_dir, image_filenames>>
          ELSE IF videos[1].num_frames = 0
          THEN /\ Fail("exit")
               /\ UNCHANGED <<images_dir, image_filenames, returncode>>
          ELSE IF ffmpeg # 0
          THEN /\ RunCommandFailed(verbose)
               /\ UNCHANGED <<images_dir, image_filenames>>
          ELSE LET num_final_frames == videos[1].extracted
               IN  /\ images_dir' = [name \in {FrameName(k, ".png") :
                                                  k \in 1 .. num_final_frames} |->
                                         VideoFrame("video",
                                             CHOOSE k \in 1 .. num_final_frames :
                                                 FrameName(k, ".png") = name)]
                   /\ image_filenames' = ExtractedFrames(num_final_frames)
                   /\ pc' = "copied"
                   /\ UNCHANGED <<error, returncode>>
    /\ UNCHANGED <<inputs, fn, crop, reconstruction, idx, tiers, cameras,
                   transforms_json, summary>>

\* convert_insta360_to_images, the first step of ProcessInsta360.main: the
\* front video gives frame_%05d.png, the back video back_frame_%05d.png,
\* and the back frames are renamed to follow the front ones in the order
\* glob lists them.
ConvertInsta360ToImages ==
    /\ pc = "start"
    /\ pipeline = "insta360"
    /\ \E ffprobe \in {0, 1}, ffmpeg \in {0, 1} :
          IF ffprobe # 0
          THEN /\ RunCommandFailed(FALSE)
               /\ UNCHANGED <<images_dir, image_filenames>>
          ELSE IF videos[1].num_frames = 0 \/ videos[2].num_frames = 0
          THEN /\ Fail("exit")
               /\ UNCHANGED <<images_dir, image_filenames, returncode>>
          ELSE IF ffmpeg # 0
          THEN /\ RunCommandFailed(verbose)
               /\ UNCHANGED <<images_dir, image_filenames>>
          ELSE LET front == videos[1].extracted
                   back == videos[2].extracted
               IN  \E order \in {f \in [1 .. back -> 1 .. back] :
                                    \A i, j \in 1 .. back : f[i] = f[j] => i = j} :
                      /\ images_dir' =
                             [name \in {FrameName(k, ".png") : k \in 1 .. front + back} |->
                                 LET k == CHOOSE k \in 1 .. front + back :
                                              FrameName(k, ".png") = name
                                 IN  IF k <= front
                                     THEN VideoFrame("front", k)
                                     ELSE VideoFrame("back", order[k - front])]
                      /\ image_filenames' = ExtractedFrames(front + back)
                      /\ pc' = "copied"
                      /\ UNCHANGED <<error, returncode>>
    /\ UNCHANGED <<inputs, fn, crop, reconstruction, idx, tiers, cameras,
                   transforms_json, summary>>

\* The rest of ProcessInsta360.main after the downscaling: run_opensfm is
\* called with the keywords gpu and matching_method, which it does not
\* have, and opensfm_to_json with cameras_path and images_path, so each
\* call raises TypeError; with skip_colmap and no
\* opensfm/sparse/0/cameras.bin neither is called.  reconstruction keeps
\* whether that file is there.
Insta360Sfm ==
    /\ DownscaleReturned
    /\ pipeline = "insta360"
    /\ \E cameras_bin_exists \in BOOLEAN :
          /\ reconstruction' = IF cameras_bin_exists
                                THEN <<[names |-> <<>>, camera |-> NoFunction]>>
                                ELSE <<>>
          /\ IF ~skip_colmap \/ cameras_bin_exists
             THEN Fail("TypeError")
             ELSE pc' = "done" /\ UNCHANGED error
    /\ UNCHANGED <<inputs, fn, crop, returncode, idx, image_filenames,
                   images_dir, tiers, cameras, transforms_json, summary>>

Next ==
    \/ Sample
    \/ CopyImagesList
    \/ CopyImages
    \/ DownscaleImages
    \/ RunSfm
    \/ ColmapToJson
    \/ OpensfmToJson
    \/ Record3dToJson
    \/ PolycamToJson

Spec == Init /\ [][Next]_vars

(* -------------------- runs with all the options ------------------------ *)

\* Largest number of images in a run that draws all the options.
MaxSmall == 2

\* Values of --crop_border_pixels; 15 is the default.
CropBorderPixels == {0, 15, 20}

\* A second camera JSON, of a portrait image with an off-centre principal
\* point.
PolycamPortrait ==
    [fx |-> 700, fy |-> 710, cx |-> 383, cy |-> 514, width |-> 768,
     height |-> 1024]

\* Nothing has been done yet.
NothingDone ==
    /\ pc = "start"
    /\ error = "none"
    /\ idx = <<>>
    /\ image_filenames = <<>>
    /\ images_dir = NoFunction
    /\ tiers = NoFunction
    /\ cameras = NoFunction
    /\ reconstruction = <<>>
    /\ transforms_json = <<>>
    /\ summary = <<>>
    /\ cropped = <<>>
    /\ returncode = 0
    /\ call = NoCall
    /\ result = <<>>

InitPolycam ==
    /\ pipeline = "polycam"
    /\ sfm_method = "none"
    /\ skip_colmap = FALSE
    /\ \E n \in 0 .. MaxSmall, sfx \in Suffixes :
          data_dir = {SourceFile(p, sfx) : p \in 0 .. n - 1}
    /\ poses = <<>>
    /\ max_dataset_size \in {-1, 1}
    /\ min_blur_score = 25
    /\ num_downscales \in {0, 1}
    /\ camera_type = "perspective"
    /\ use_uncorrected_images \in BOOLEAN
    /\ corrected_images \in BOOLEAN
    /\ intrinsics \in {PolycamExample, PolycamPortrait}
    /\ videos = <<>>
    /\ singular_poses = {}
    /\ crop_border_pixels \in {<<m>> : m \in CropBorderPixels}
    /\ verbose \in BOOLEAN
    /\ missing \in (IF data_dir = {} THEN {"none", "images", "cameras"}
                     ELSE {"none", "cameras"})

\* A folder of images whose suffixes may differ, for ProcessImages.
InitImages ==
    /\ pipeline = "images"
    /\ sfm_method \in {"colmap", "OpenSfM"}
    /\ skip_colmap \in (IF sfm_method = "colmap" THEN BOOLEAN ELSE {FALSE})
    /\ \E n \in 0 .. MaxSmall : \E sfx \in [0 .. n - 1 -> Suffixes] :
          data_dir = {SourceFile(p, sfx[p]) : p \in 0 .. n - 1}
    /\ poses = <<>>
    /\ max_dataset_size = -1
    /\ min_blur_score = 0
    /\ num_downscales \in {0, MaxDownscales}
    /\ camera_type \in {"perspective", "fisheye", "equirectangular"}
    /\ use_uncorrected_images = FALSE
    /\ corrected_images = FALSE
    /\ intrinsics = NoFunction
    /\ videos = <<>>
    /\ singular_poses \in (IF sfm_method = "colmap" THEN {{}, {1}} ELSE {{}})
    /\ crop_border_pixels = <<>>
    /\ verbose \in BOOLEAN
    /\ missing = "none"

\* What ffprobe counts in a video and how many files ffmpeg writes for it.
Videos ==
    {[num_frames |-> 0, extracted |-> 0]}
    \cup {[num_frames |-> 5, extracted |-> k] : k \in 0 .. MaxSmall}

InitVideo ==
    /\ pipeline \in {"video", "insta360"}
    /\ sfm_method \in (IF pipeline = "video" THEN {"colmap", "OpenSfM"} ELSE {"none"})
    /\ skip_colmap \in (IF sfm_method = "OpenSfM" THEN {FALSE} ELSE BOOLEAN)
    /\ data_dir = {}
    /\ poses = <<>>
    /\ max_dataset_size = -1
    /\ min_blur_score = 0
    /\ num_downscales \in {0, 1}
    /\ camera_type \in (IF pipeline = "video"
                         THEN {"perspective", "fisheye"} ELSE {"equirectangular"})
    /\ use_uncorrected_images = FALSE
    /\ corrected_images = FALSE
    /\ intrinsics = NoFunction
    /\ videos \in (IF pipeline = "video"
                    THEN {<<v>> : v \in Videos}
                    ELSE {<<front, back>> : front \in Videos, back \in Videos})
    /\ singular_poses = {}
    /\ crop_border_pixels = <<>>
    /\ verbose \in BOOLEAN
    /\ missing = "none"

InitRecord3d ==
    /\ pipeline = "record3d"
    /\ sfm_method = "none"
    /\ skip_colmap = FALSE
    /\ \E n \in 0 .. MaxSmall, sfx \in Suffixes :
          /\ data_dir = {SourceFile(p, sfx) : p \in 0 .. n - 1}
          /\ poses = np_arange(n)
    /\ max_dataset_size \in {-1, 1}
    /\ min_blur_score = 0
    /\ num_downscales \in {0, 1}
    /\ camera_type = "perspective"
    /\ use_uncorrected_images = FALSE
    /\ corrected_images = FALSE
    /\ intrinsics = Record3dMetadata
    /\ videos = <<>>
    /\ singular_poses = {}
    /\ crop_border_pixels = <<>>
    /\ verbose \in BOOLEAN
    /\ missing \in (IF data_dir = {} THEN {"none", "images", "metadata"}
                     ELSE {"none", "metadata"})

InitOptions ==
    /\ NothingDone
    /\ \/ InitImages
       \/ InitVideo
       \/ InitRecord3d
       \/ InitPolycam

NextOptions ==
    \/ Sample
    \/ CopyImagesList
    \/ CopyImages
    \/ ConvertVideoToImages
    \/ ConvertInsta360ToImages
    \/ DownscaleImages
    \/ RunSfm
    \/ Insta360Sfm
    \/ ColmapToJson
    \/ OpensfmToJson
    \/ Record3dToJson
    \/ PolycamToJson

SpecOptions == InitOptions /\ [][NextOptions]_vars

(* ----------------------- single function calls ------------------------- *)

\* Largest frame count given to get_matching_summary.
MaxCount == 150

\* No pipeline runs while a single function is called.
NoRun ==
    /\ pipeline = "none"
    /\ sfm_method = "none"
    /\ skip_colmap = FALSE
    /\ pc = "call"
    /\ error = "none"
    /\ data_dir = {}
    /\ poses = <<>>
    /\ max_dataset_size = -1
    /\ min_blur_score = 0
    /\ num_downscales = 0
    /\ idx = <<>>
    /\ image_filenames = <<>>
    /\ images_dir = NoFunction
    /\ tiers = NoFunction
    /\ cameras = NoFunction
    /\ reconstruction = <<>>
    /\ transforms_json = <<>>
    /\ summary = <<>>
    /\ camera_type = "perspective"
    /\ use_uncorrected_images = FALSE
    /\ corrected_images = FALSE
    /\ intrinsics = NoFunction
    /\ videos = <<>>
    /\ singular_poses = {}
    /\ crop_border_pixels = <<>>
    /\ cropped = <<>>
    /\ verbose = FALSE
    /\ missing = "none"
    /\ returncode = 0

MatchingSummaryCalls ==
    {[op |-> "get_matching_summary", num_intial_frames |-> i, num_matched_frames |-> f] :
        i \in 0 .. MaxCount, f \in 0 .. MaxCount}

GetMatchingSummary ==
    /\ call.op = "get_matching_summary"
    /\ result = <<>>
    /\ result' = <<get_matching_summary(call.num_intial_frames,
                                        call.num_matched_frames)>>
    /\ UNCHANGED <<run, call>>

(* Poses.  A matrix is a sequence of rows.  Rotations and translations have
   integer entries, and the rotations have determinant 1, -1 or 0, so that
   every matrix of a conversion is an integer matrix. *)

\* M without row i and column j.
Minor(M, i, j) ==
    [r \in 1 .. Len(M) - 1 |->
        [c \in 1 .. Len(M) - 1 |->
            M[IF r < i THEN r ELSE r + 1][IF c < j THEN c ELSE c + 1]]]

Sign(k) == IF k % 2 = 0 THEN 1 ELSE -1

\* The determinant, expanded along the first row from column j on.
RECURSIVE DetFrom(_, _)
DetFrom(M, j) ==
    IF Len(M) = 1 THEN M[1][1]
    ELSE IF j > Len(M) THEN 0
    ELSE Sign(1 + j) * M[1][j] * DetFrom(Minor(M, 1, j), 1) + DetFrom(M, j + 1)

Det(M) == DetFrom(M, 1)

\* np.linalg.inv of a matrix of determinant 1 or -1: the adjugate divided
\* by the determinant.  A matrix of determinant 0 makes it raise
\* LinAlgError.
np_linalg_inv(M) ==
    [i \in 1 .. Len(M) |->
        [j \in 1 .. Len(M) |-> Det(M) * Sign(i + j) * Det(Minor(M, j, i))]]

\* np.concatenate([rotation, translation], 1) and then the row [0, 0, 0, 1].
W2C(rotation, translation) ==
    [i \in 1 .. 4 |->
        IF i = 4 THEN <<0, 0, 0, 1>>
        ELSE rotation[i] \o <<translation[i]>>]

\* c2w[0:3, 1:3] *= -1
NegateColumns12_column1(M) ==
    [i \in 1 .. 4 |->
        [j \in 1 .. 4 |-> IF i <= 3 /\ j = 2 THEN -M[i][j] ELSE M[i][j]]]

NegateColumns12(M) ==
    [i \in 1 .. 4 |->
        [j \in 1 .. 4 |-> IF i <= 3 /\ j \in {2, 3} THEN -M[i][j] ELSE M[i][j]]]

\* c2w = c2w[np.array([1, 0, 2, 3]), :]
PermuteRows_cycle(M) == <<M[2], M[3], M[1], M[4]>>

PermuteRows(M) == <<M[2], M[1], M[3], M[4]>>

\* c2w[2, :] *= -1
NegateRow2_last(M) ==
    [i \in 1 .. 4 |-> [j \in 1 .. 4 |-> IF i = 4 THEN -M[i][j] ELSE M[i][j]]]

NegateRow2(M) ==
    [i \in 1 .. 4 |-> [j \in 1 .. 4 |-> IF i = 3 THEN -M[i][j] ELSE M[i][j]]]

\* The transform_matrix of one frame of colmap_to_json and opensfm_to_json,
\* which share these steps, from the rotation matrix qvec2rotmat returned
\* and the translation.
SfmTransformMatrix(rotation, translation) ==
    NegateRow2(PermuteRows(NegateColumns12(np_linalg_inv(W2C(rotation, translation)))))

\* The transform_matrix of one frame of record3d_to_json: the 3x4
\* camera-to-world matrix and the homogeneous row.
Record3dTransformMatrix(rotation, translation) ==
    [i \in 1 .. 4 |->
        IF i = 4 THEN [j \in 1 .. 4 |-> IF j = 4 THEN 1 ELSE 0]
        ELSE rotation[i] \o <<translation[i]>>]

\* The transform_matrix of one frame of polycam_to_json from the t_ij of
\* the camera JSON (t[i + 1][j + 1] here).
PolycamTransformMatrix(t) == <<t[3], t[1], t[2], <<0, 0, 0, 1>>>>

\* The coordinates of a translation.
Coords == {-1, 0, 2}

Translations == {<<x, y, z>> : x \in Coords, y \in Coords, z \in Coords}

Permutations3 == {p \in [1 .. 3 -> 1 .. 3] : \A i, j \in 1 .. 3 : p[i] = p[j] => i = j}

\* The 48 signed permutation matrices: orthonormal, determinant 1 or -1.
SignedPermutations ==
    {[i \in 1 .. 3 |-> [j \in 1 .. 3 |-> IF j = p[i] THEN sg[i] ELSE 0]] :
        p \in Permutations3, sg \in [1 .. 3 -> {-1, 1}]}

\* A matrix of determinant 0 such as qvec2rotmat returns for the
\* quaternion (0, 1/2, 1/2, 0) of images.bin, which is not a unit
\* quaternion; the entries are doubled here to keep them integers.
SingularRotation == <<<<1, 1, 0>>, <<1, 1, 0>>, <<0, 0, 0>>>>

PoseCalls ==
    {[op |-> o, rotation |-> r, translation |-> t] :
        o \in {"colmap_to_json", "opensfm_to_json", "record3d_to_json"},
        r \in SignedPermutations, t \in Translations}
    \cup {[op |-> "colmap_to_json", rotation |-> SingularRotation, translation |-> t] :
            t \in Translations}
    \cup {[op |-> "polycam_to_json", t |-> [i \in 1 .. 3 |-> r[i] \o <<t[i]>>]] :
            r \in SignedPermutations, t \in Translations}

\* One pass of the frame loop of colmap_to_json or opensfm_to_json.
SfmPose ==
    /\ call.op \in {"colmap_to_json", "opensfm_to_json"}
    /\ result = <<>>
    /\ result' = IF Det(W2C(call.rotation, call.translation)) = 0
                  THEN <<[raised |-> "LinAlgError"]>>
                  ELSE <<[raised |-> "none",
                          transform_matrix |->
                              SfmTransformMatrix(call.rotation, call.translation)]>>
    /\ UNCHANGED <<run, call>>

Record3dPose ==
    /\ call.op = "record3d_to_json"
    /\ result = <<>>
    /\ result' = <<[raised |-> "none",
                    transform_matrix |->
                        Record3dTransformMatrix(call.rotation, call.translation)]>>
    /\ UNCHANGED <<run, call>>

PolycamPose ==
    /\ call.op = "polycam_to_json"
    /\ result = <<>>
    /\ result' = <<[raised |-> "none",
                    transform_matrix |-> PolycamTransformMatrix(call.t)]>>
    /\ UNCHANGED <<run, call>>

(* Rotations as COLMAP and OpenSfM store them.  A number n * (sqrt 1/2)^k is
   the record [k |-> k, n |-> n]; a quaternion is [k |-> k, q |-> <<w, x, y,
   z>>] with integer w, x, y, z, each standing for itself times
   (sqrt 1/2)^k; the arithmetic is exact. *)

Times(a, b) ==
    IF a.n * b.n = 0 THEN [k |-> 0, n |-> 0] ELSE [k |-> a.k + b.k, n |-> a.n * b.n]

Max(S) == CHOOSE m \in S : \A other \in S : other <= m

\* np.array([qw, qx, qy, qz]): the four numbers at one common scale.
np_array(numbers) ==
    LET K == Max({0} \cup {numbers[i].k : i \in {j \in 1 .. Len(numbers) : numbers[j].n # 0}})
    IN  [k |-> K,
         q |-> [i \in 1 .. Len(numbers) |->
                    numbers[i].n * 2 ^ ((K - numbers[i].k) \div 2)]]

\* colmap_utils.qvec2rotmat: the standard quaternion-to-matrix formula on
\* (w, x, y, z).  The entries of the quaternions drawn here are integers.
qvec2rotmat(qvec) ==
    LET w == qvec.q[1]
        x == qvec.q[2]
        y == qvec.q[3]
        z == qvec.q[4]
        one == 2 ^ qvec.k
    IN  <<<<(one - 2 * y * y - 2 * z * z) \div one,
            (2 * x * y - 2 * w * z) \div one,
            (2 * z * x + 2 * w * y) \div one>>,
          <<(2 * x * y + 2 * w * z) \div one,
            (one - 2 * x * x - 2 * z * z) \div one,
            (2 * y * z - 2 * w * x) \div one>>,
          <<(2 * z * x - 2 * w * y) \div one,
            (2 * y * z + 2 * w * x) \div one,
            (one - 2 * x * x - 2 * y * y) \div one>>>>

\* The largest angle of an axis-angle vector, in quarter turns.
MaxTurns == 4

\* np.sin(angle / 2) and np.cos(angle / 2) of an angle of so many quarter
\* turns: the sines and cosines of the multiples of 45 degrees.
np_sin_half(turns) ==
    LET eighth == turns % 8
    IN  IF eighth \in {1, 3} THEN [k |-> 1, n |-> 1]
        ELSE IF eighth = 2 THEN [k |-> 0, n |-> 1]
        ELSE IF eighth \in {5, 7} THEN [k |-> 1, n |-> -1]
        ELSE IF eighth = 6 THEN [k |-> 0, n |-> -1]
        ELSE [k |-> 0, n |-> 0]

np_cos_half(turns) == np_sin_half(turns + 2)

(* The quaternion opensfm_to_json makes of a shot's rotation.  The axis-angle
   vector is [turns |-> m, axis |-> [k |-> k, v |-> <<a, b, c>>]]: the unit
   vector (a, b, c) * (sqrt 1/2)^k times an angle of m quarter turns, which
   is the vector's norm; m = 0 is the zero vector. *)
AxisAngleToQvec_full_angle(rotation) ==
    IF rotation.turns > 0
    THEN LET sin == np_sin_half(2 * rotation.turns)
             cos == np_cos_half(2 * rotation.turns)
             aa_vec == [i \in 1 .. 3 |-> [k |-> rotation.axis.k, n |-> rotation.axis.v[i]]]
         IN  np_array(<<cos, Times(aa_vec[1], sin), Times(aa_vec[2], sin),
                        Times(aa_vec[3], sin)>>)
    ELSE [k |-> 0, q |-> <<1, 0, 0, 0>>]

AxisAngleToQvec(rotation) ==
    IF rotation.turns > 0
    THEN LET sin == np_sin_half(rotation.turns)
             cos == np_cos_half(rotation.turns)
             aa_vec == [i \in 1 .. 3 |-> [k |-> rotation.axis.k, n |-> rotation.axis.v[i]]]
         IN  np_array(<<cos, Times(aa_vec[1], sin), Times(aa_vec[2], sin),
                        Times(aa_vec[3], sin)>>)
    ELSE [k |-> 0, q |-> <<1, 0, 0, 0>>]

\* The transform_matrix colmap_to_json makes of im_data.qvec and im_data.tvec.
ColmapTransformMatrix(qvec, translation) ==
    SfmTransformMatrix(qvec2rotmat(qvec), translation)

\* The transform_matrix opensfm_to_json makes of a shot's rotation and
\* translation.
OpensfmTransformMatrix(rotation, translation) ==
    SfmTransformMatrix(qvec2rotmat(AxisAngleToQvec(rotation)), translation)

\* The unit quaternions with entries 0, 1, -1 (k = 0) and 0, sqrt 1/2,
\* -sqrt 1/2 (k = 1): both quaternions of every rotation that is a multiple
\* of a quarter turn about a coordinate axis or a half turn about a face
\* diagonal.
Qvecs ==
    {qvec \in [k : {0, 1}, q : [1 .. 4 -> {-1, 0, 1}]] :
        qvec.q[1] * qvec.q[1] + qvec.q[2] * qvec.q[2] + qvec.q[3] * qvec.q[3]
            + qvec.q[4] * qvec.q[4] = 2 ^ qvec.k}

\* The axis-angle vectors: the zero vector, the multiples of a quarter turn
\* about a coordinate axis, and the half turns about a face diagonal.
AxisAngles ==
    {[turns |-> 0, axis |-> [k |-> 0, v |-> <<0, 0, 0>>]]}
    \cup {[turns |-> m, axis |-> [k |-> 0, v |-> v]] :
            m \in 1 .. MaxTurns,
            v \in {u \in [1 .. 3 -> {-1, 0, 1}] : u[1] * u[1] + u[2] * u[2] + u[3] * u[3] = 1}}
    \cup {[turns |-> 2, axis |-> [k |-> 1, v |-> v]] :
            v \in {u \in [1 .. 3 -> {-1, 0, 1}] : u[1] * u[1] + u[2] * u[2] + u[3] * u[3] = 2}}

RotationCalls ==
    {[op |-> "colmap_to_json.qvec", qvec |-> q, translation |-> t] :
        q \in Qvecs, t \in Translations}
    \cup {[op |-> "opensfm_to_json.rotation", rotation |-> r, translation |-> t] :
            r \in AxisAngles, t \in Translations}

\* One pass of the frame loop of colmap_to_json, from the quaternion.
ColmapPose ==
    /\ call.op = "colmap_to_json.qvec"
    /\ result = <<>>
    /\ result' = <<[raised |-> "none",
                    transform_matrix |->
                        ColmapTransformMatrix(call.qvec, call.translation)]>>
    /\ UNCHANGED <<run, call>>

\* One pass of the frame loop of opensfm_to_json, from the axis-angle vector.
OpensfmPose ==
    /\ call.op = "opensfm_to_json.rotation"
    /\ result = <<>>
    /\ result' = <<[raised |-> "none",
                    transform_matrix |->
                        OpensfmTransformMatrix(call.rotation, call.translation)]>>
    /\ UNCHANGED <<run, call>>

Widths == {640, 641}

\* The distortion keys of OpenSfM's camera types: none for a spherical
\* camera, k1 k2 for perspective, k1 k2 p1 p2 k3 for brown, k1 .. k4 for
\* fisheye_opencv.
OpensfmDistortionKeys ==
    {{}, {"k1", "k2"}, {"k1", "k2", "p1", "p2", "k3"}, {"k1", "k2", "k3", "k4"}}

OpensfmCams ==
    {[key \in {"width", "height"} \cup optional \cup distortion |->
         IF key = "width" THEN width ELSE CamValue[key]] :
        optional \in SUBSET {"focal_x", "focal_y", "c_x", "c_y"},
        distortion \in OpensfmDistortionKeys,
        width \in Widths}

OutCalls ==
    {[op |-> "opensfm_to_json.out", cam |-> cam, camera_model |-> m] :
        cam \in OpensfmCams, m \in CameraModel}

\* The intrinsics part of opensfm_to_json.
OpensfmIntrinsics ==
    /\ call.op = "opensfm_to_json.out"
    /\ result = <<>>
    /\ result' = <<OpensfmOut(call.cam, call.camera_model)>>
    /\ UNCHANGED <<run, call>>

InitFn ==
    /\ NoRun
    /\ call \in MatchingSummaryCalls \cup PoseCalls \cup RotationCalls \cup OutCalls
    /\ result = <<>>

NextFn ==
    \/ GetMatchingSummary
    \/ SfmPose
    \/ Record3dPose
    \/ PolycamPose
    \/ ColmapPose
    \/ OpensfmPose
    \/ OpensfmIntrinsics

SpecFn == InitFn /\ [][NextFn]_vars

(* ------------------------------ claims --------------------------------- *)

\* The number of images the sampler is given: every file of a Polycam
\* directory, the files with an all-digit stem of a Record3D directory.
NumImages ==
    Cardinality({f \in data_dir : pipeline = "polycam" \/ f.copy = 0})

\* The sampler has run and produced idx.
Sampled ==
    /\ pipeline \in {"record3d", "polycam"}
    /\ pc # "start"
    /\ error # "ValueError"

\* C1 as stated: for every cap with 1 <= cap < N the index sequence has
\* exactly cap entries, is non-decreasing, starts at 0 and ends at N-1.
C1_Original ==
    (Sampled /\ 1 <= max_dataset_size /\ max_dataset_size < NumImages)
    => /\ Len(idx) = max_dataset_size
       /\ \A i \in 1 .. Len(idx) - 1 : idx[i] <= idx[i + 1]
       /\ idx[1] = 0
       /\ idx[Len(idx)] = NumImages - 1

\* C1 (amended): for every cap with 2 <= cap < N the index sequence has
\* exactly cap entries, is non-decreasing, starts at 0 and ends at N-1; for
\* cap = 1 < N it is the single index 0.
C1_SamplerBounds ==
    /\ (Sampled /\ 2 <= max_dataset_size /\ max_dataset_size < NumImages)
       => /\ Len(idx) = max_dataset_size
          /\ \A i \in 1 .. Len(idx) - 1 : idx[i] <= idx[i + 1]
          /\ idx[1] = 0
          /\ idx[Len(idx)] = NumImages - 1
    /\ (Sampled /\ max_dataset_size = 1 /\ 1 < NumImages) => idx = <<0>>

C1_Witness ==
    /\ Sampled
    /\ NumImages = 4
    /\ max_dataset_size = 3
    /\ idx = <<0, 2, 3>>

\* C2: when the cap is at least N, or is -1, the index sequence is
\* 0, 1, ..., N-1 and every source image is kept in its sorted order.
C2_SamplerIdentity ==
    (Sampled /\ (max_dataset_size >= NumImages \/ max_dataset_size = -1))
    => /\ Len(idx) = NumImages
       /\ \A i \in 1 .. Len(idx) : idx[i] = i - 1
       /\ Len(image_filenames) = NumImages
       /\ \A i \in 1 .. Len(image_filenames) :
             /\ image_filenames[i] \in data_dir
             /\ Cardinality({g \in data_dir :
                    g.copy = 0 /\ g.stem < image_filenames[i].stem}) = i - 1

C2_Witness ==
    /\ Sampled
    /\ NumImages = 3
    /\ max_dataset_size = -1
    /\ Len(image_filenames) = 3

\* C3 as stated: when a run starts, some image count N <= MaxN and some cap
\* with 1 <= cap < N that it may have been given make the sampler return an
\* index sequence that holds an index twice.
C3_Original ==
    pc = "start"
    => \E n \in 1 .. MaxN : \E cap \in 1 .. n - 1 :
          LET s == SamplerIdx(n, cap)
          IN  \E i, j \in 1 .. Len(s) : i # j /\ s[i] = s[j]

\* C3 (amended): for every cap with 1 <= cap < N the index sequence is
\* strictly increasing, so no index occurs twice.
C3_NoDuplicateIndices ==
    (Sampled /\ 1 <= max_dataset_size /\ max_dataset_size < NumImages)
    => \A i \in 1 .. Len(idx) - 1 : idx[i] < idx[i + 1]

C3_Witness ==
    /\ Sampled
    /\ NumImages = 6
    /\ max_dataset_size = 5
    /\ idx = <<0, 1, 2, 4, 5>>

\* polycam_to_json has written the descriptor of a Polycam run.
PolycamWritten == pipeline = "polycam" /\ transforms_json # <<>>

\* The positions (1-indexed) of the sampled Polycam images whose camera JSON
\* has no blur_score or one that is not below min_blur_score.
Sharp ==
    {i \in 1 .. Len(image_filenames) :
        ~ (/\ cameras[image_filenames[i].stem].has_blur_score
           /\ cameras[image_filenames[i].stem].blur_score < min_blur_score)}

\* C4: every frame of a Polycam descriptor names a file of images/, and
\* that file is the copy of the source image whose same-stem camera JSON
\* gave the frame its transform_matrix.
C4_PolycamAlignment ==
    PolycamWritten
    => \A k \in 1 .. Len(transforms_json[1].frames) :
          LET frame == transforms_json[1].frames[k]
          IN  /\ frame.file_path.dir = "./images/"
              /\ frame.file_path.name \in DOMAIN images_dir
              /\ images_dir[frame.file_path.name] \in data_dir
              /\ images_dir[frame.file_path.name].stem = frame.transform_matrix.json

C4_Witness ==
    /\ PolycamWritten
    /\ pc = "done"
    /\ max_dataset_size = 3
    /\ NumImages = 4
    /\ Sharp = {2, 3}

C6_Record3dAlignment ==
    (pipeline = "record3d" /\ transforms_json # <<>>)
    => LET frames == transforms_json[1].frames
       IN  /\ Len(frames) = Len(idx)
           /\ \A k \in 1 .. Len(frames) :
                 /\ frames[k].file_path.dir = "images/"
                 /\ frames[k].file_path.name.digits = <<0, 0, 0, 0, k>>
                 /\ frames[k].file_path.name \in DOMAIN images_dir
                 /\ LET src == images_dir[frames[k].file_path.name]
                    IN  /\ src \in data_dir
                        /\ src.copy = 0
                        /\ src.suffix = frames[k].file_path.name.suffix
                        /\ Cardinality({g \in data_dir :
                               g.copy = 0 /\ g.stem < src.stem}) = idx[k]
                 /\ frames[k].transform_matrix.pose = idx[k]

C6_Witness ==
    /\ pipeline = "record3d"
    /\ pc = "done"
    /\ NumImages = 5
    /\ Cardinality(data_dir) = 6
    /\ idx = <<0, 1, 3, 4>>
    /\ Len(transforms_json[1].frames) = 4

\* C7: no two frames of a written descriptor have the same file_path,
\* whichever backend wrote it and whatever the sampler selected.
C7_UniqueFilePaths ==
    transforms_json # <<>>
    => \A i, j \in 1 .. Len(transforms_json[1].frames) :
          i # j => transforms_json[1].frames[i].file_path
                      # transforms_json[1].frames[j].file_path

C7_Witness ==
    /\ pipeline = "record3d"
    /\ pc = "done"
    /\ NumImages = 6
    /\ max_dataset_size = 5
    /\ Len(transforms_json[1].frames) = 5

\* C8: a Polycam frame is left out of the descriptor exactly when its
\* camera JSON has a blur_score below min_blur_score; the frames kept stay
\* in order, and the number skipped plus the number written is the number
\* of input frames.
C8_BlurFilter ==
    PolycamWritten
    => LET frames == transforms_json[1].frames
       IN  /\ \A i \in 1 .. Len(image_filenames) :
                 (i \in Sharp) <=>
                 (\E k \in 1 .. Len(frames) :
                     frames[k].transform_matrix.json = image_filenames[i].stem)
           /\ \A k, l \in 1 .. Len(frames) :
                 k < l => frames[k].transform_matrix.json < frames[l].transform_matrix.json
           /\ Len(frames) + (Len(image_filenames) - Cardinality(Sharp))
                 = Len(image_filenames)
           /\ pc = "done"
              => /\ summary[1].skipped + Len(frames) = Len(image_filenames)
                 /\ summary[1].final = Len(frames)

\* Scores 10, 30, absent with threshold 25: the second and third are kept.
C8_Witness ==
    /\ PolycamWritten
    /\ pc = "done"
    /\ min_blur_score = 25
    /\ Len(image_filenames) = 3
    /\ cameras[image_filenames[1].stem].has_blur_score
    /\ cameras[image_filenames[1].stem].blur_score = 10
    /\ cameras[image_filenames[2].stem].has_blur_score
    /\ cameras[image_filenames[2].stem].blur_score = 30
    /\ ~ cameras[image_filenames[3].stem].has_blur_score
    /\ Len(transforms_json[1].frames) = 2
    /\ transforms_json[1].frames[1].transform_matrix.json = image_filenames[2].stem
    /\ transforms_json[1].frames[2].transform_matrix.json = image_filenames[3].stem
    /\ summary[1].skipped = 1

\* C9: polycam_to_json ends the process with exit status 1 exactly when
\* blur filtering leaves no frame; otherwise it returns its summary.
C9_EmptyDatasetExit ==
    (pipeline = "polycam" /\ cameras # NoFunction)
    => /\ (pc = "failed" /\ error = "exit") <=> (Sharp = {})
       /\ Sharp # {} => (pc = "done" /\ summary # <<>>)

C9_Witness ==
    /\ pipeline = "polycam"
    /\ cameras # NoFunction
    /\ Len(image_filenames) = 2
    /\ Sharp = {}
    /\ pc = "failed"
    /\ error = "exit"

\* C10: a run that ends on a fatal error path has written no descriptor.
C10_NoDescriptorOnFatal ==
    pc = "failed" => transforms_json = <<>>

\* C17: for counts I >= 1 and 0 <= F <= I, get_matching_summary returns
\* the message of exactly one band: "all images" iff F = I, low iff
\* 5F < 2I, medium iff 2I <= 5F < 4I, the percentage success message iff
\* 4I <= 5F and F # I.
C17_MatchBands ==
    (/\ call.op = "get_matching_summary"
     /\ result # <<>>
     /\ call.num_intial_frames >= 1
     /\ call.num_matched_frames <= call.num_intial_frames)
    => LET I == call.num_intial_frames
           F == call.num_matched_frames
           m == result[1]
       IN  /\ m.raised = "none"
           /\ m.message = "found poses for all images" <=> F = I
           /\ m.message = "This is low" <=> 5 * F < 2 * I
           /\ m.message = "This isn't great, but may be ok"
                  <=> (2 * I <= 5 * F /\ 5 * F < 4 * I)
           /\ m.message = "found poses for percent of the images"
                  <=> (4 * I <= 5 * F /\ F # I)

\* 130 of 150 frames matched: the percentage success message.
C17_Witness ==
    /\ call.op = "get_matching_summary"
    /\ call.num_intial_frames = 150
    /\ call.num_matched_frames = 130
    /\ result = <<[raised |-> "none",
                   message |-> "found poses for percent of the images"]>>

\* The product of two square matrices of the same size.
MatMul(A, B) ==
    [i \in 1 .. Len(A) |->
        [j \in 1 .. Len(A) |->
            A[i][1] * B[1][j] + A[i][2] * B[2][j] + A[i][3] * B[3][j]
            + A[i][4] * B[4][j]]]

Identity4 == <<<<1, 0, 0, 0>>, <<0, 1, 0, 0>>, <<0, 0, 1, 0>>, <<0, 0, 0, 1>>>>

SfmPoseConverted ==
    /\ call.op \in {"colmap_to_json", "opensfm_to_json"}
    /\ result # <<>>
    /\ result[1].raised = "none"

\* C12: for every signed permutation matrix R and translation t, undoing
\* the fixed steps on the matrix the COLMAP/OpenSfM conversion produces
\* from W2C = [[R|t],[0,0,0,1]] (negate row 2, permute rows [1,0,2,3],
\* negate columns 1 and 2 of rows 0..2) gives the inverse of W2C, and
\* inverting that gives W2C.
C12_PoseRoundTrip ==
    (SfmPoseConverted /\ call.rotation \in SignedPermutations)
    => LET w2c == W2C(call.rotation, call.translation)
           undone == NegateColumns12(PermuteRows(NegateRow2(
                         result[1].transform_matrix)))
       IN  /\ MatMul(undone, w2c) = Identity4
           /\ MatMul(w2c, undone) = Identity4
           /\ np_linalg_inv(undone) = w2c

\* A rotation that is not a diagonal matrix, with a translation that has no
\* zero coordinate.
C12_Witness ==
    /\ SfmPoseConverted
    /\ call.op = "colmap_to_json"
    /\ call.rotation = <<<<0, -1, 0>>, <<0, 0, 1>>, <<-1, 0, 0>>>>
    /\ call.translation = <<2, -1, 2>>
    /\ result[1].transform_matrix[1][4] # 0

\* C13: every transform_matrix the four backends write is a 4x4 matrix
\* whose bottom row is [0, 0, 0, 1].
C13_BottomRow ==
    (/\ call.op \in {"colmap_to_json", "opensfm_to_json", "record3d_to_json",
                     "polycam_to_json"}
     /\ result # <<>>
     /\ result[1].raised = "none")
    => LET m == result[1].transform_matrix
       IN  /\ Len(m) = 4
           /\ \A i \in 1 .. 4 : Len(m[i]) = 4
           /\ m[4] = <<0, 0, 0, 1>>

\* An OpenSfM pose whose inverse has a non-zero last column, converted.
C13_Witness ==
    /\ SfmPoseConverted
    /\ call.op = "opensfm_to_json"
    /\ call.translation = <<-1, 2, 2>>
    /\ result[1].transform_matrix[3] # <<0, 0, 0, 0>>
    /\ result[1].transform_matrix[4] = <<0, 0, 0, 1>>

\* Equality of two floats of a descriptor.
FloatEq(a, b) == a.n * b.d = b.n * a.d

\* C16: opensfm_to_json maps each intrinsic on its own: cx is c_x when the
\* camera record has it and width/2 otherwise, cy is c_y or height/2, fl_x
\* is focal_x or height, fl_y is focal_y or height; w and h are the
\* record's width and height.
C16_OpensfmIntrinsics ==
    (/\ call.op = "opensfm_to_json.out"
     /\ result # <<>>
     /\ result[1].raised = "none")
    => LET cam == call.cam
           out == result[1].out
           has(key) == key \in DOMAIN cam
       IN  /\ IF has("c_x") THEN FloatEq(out["cx"], [n |-> cam["c_x"], d |-> 1])
                            ELSE 2 * out["cx"].n = cam["width"] * out["cx"].d
           /\ IF has("c_y") THEN FloatEq(out["cy"], [n |-> cam["c_y"], d |-> 1])
                            ELSE 2 * out["cy"].n = cam["height"] * out["cy"].d
           /\ IF has("focal_x")
              THEN FloatEq(out["fl_x"], [n |-> cam["focal_x"], d |-> 1])
              ELSE FloatEq(out["fl_x"], [n |-> cam["height"], d |-> 1])
           /\ IF has("focal_y")
              THEN FloatEq(out["fl_y"], [n |-> cam["focal_y"], d |-> 1])
              ELSE FloatEq(out["fl_y"], [n |-> cam["height"], d |-> 1])
           /\ out["w"] = cam["width"]
           /\ out["h"] = cam["height"]

\* A camera record with focal_x and c_y but neither focal_y nor c_x, and an
\* odd width.
C16_Witness ==
    /\ call.op = "opensfm_to_json.out"
    /\ result # <<>>
    /\ result[1].raised = "none"
    /\ {"focal_x", "focal_y", "c_x", "c_y"} \cap DOMAIN call.cam = {"focal_x", "c_y"}
    /\ call.cam["width"] = 641
    /\ result[1].out["cx"] = [n |-> 641, d |-> 2]
    /\ result[1].out["fl_y"] = [n |-> 481, d |-> 1]

\* C11: the Polycam descriptor holds cx - m, cy - m, width - 2m,
\* height - 2m and the unchanged fx, fy of the camera record, m being the
\* margin that was cropped from the files of images/; m is 0 when the
\* uncorrected images are used, and 1920, 1080, 960, 540 with m = 15 give
\* 1890, 1050, 945, 525.
C11_PolycamCrop ==
    PolycamWritten
    => LET out == transforms_json[1].out
           m == cropped[1].margin
       IN  /\ cropped # <<>>
           /\ \A name \in DOMAIN images_dir : name.suffix = cropped[1].file_type
           /\ m >= 0
           /\ out.fl_x = intrinsics.fx
           /\ out.fl_y = intrinsics.fy
           /\ out.cx = intrinsics.cx - m
           /\ out.cy = intrinsics.cy - m
           /\ out.w = intrinsics.width - 2 * m
           /\ out.h = intrinsics.height - 2 * m
           /\ (use_uncorrected_images \/ ~corrected_images) => m = 0
           /\ (intrinsics = PolycamExample /\ m = 15)
                  => (out.w = 1890 /\ out.h = 1050 /\ out.cx = 945 /\ out.cy = 525)

\* The corrected images are used with the default margin of 15.
C11_Witness ==
    /\ PolycamWritten
    /\ pc = "done"
    /\ ~use_uncorrected_images
    /\ intrinsics = PolycamExample
    /\ cropped = <<[file_type |-> ".jpg", margin |-> 15]>>
    /\ transforms_json[1].out.w = 1890
    /\ transforms_json[1].out.cx = 945

\* C14: when the world-to-camera matrix of a registered image is not
\* invertible, the COLMAP conversion leaves out that frame only: the run
\* ends with a descriptor that holds the frames of the other registered
\* images.
C14_SingularPoseExcluded ==
    (/\ sfm_method = "colmap"
     /\ reconstruction # <<>>
     /\ SingularRecords(reconstruction[1].names) # {}
     /\ pc \in {"done", "failed"})
    => /\ pc = "done"
       /\ transforms_json # <<>>
       /\ Len(transforms_json[1].frames)
             = Len(reconstruction[1].names)
               - Cardinality(SingularRecords(reconstruction[1].names))

\* C15: every descriptor carries exactly the distortion keys of its
\* camera_model: k1, k2, p1, p2 for OPENCV, k1, k2, k3, k4 for
\* OPENCV_FISHEYE, none for EQUIRECTANGULAR, whichever backend wrote it.
C15_DistortionKeys ==
    transforms_json # <<>>
    => LET out == transforms_json[1].out
       IN  DOMAIN out \cap {"k1", "k2", "k3", "k4", "p1", "p2"}
               = UpdateKeys(out["camera_model"])

\* C18: computing the match-quality message never ends a run: whenever
\* colmap_to_json has written the descriptor, get_matching_summary returns
\* a message for the two counts and the run finishes.
C18_SummaryNeverAborts ==
    (/\ pipeline \in {"images", "video"}
     /\ sfm_method = "colmap"
     /\ transforms_json # <<>>)
    => /\ pc = "done"
       /\ error = "none"
       /\ summary # <<>>

\* C19: after downscale_images has run on a base tier that is not empty,
\* the tiers are exactly images_{2^i} for i in 1..num_downscales (none for
\* num_downscales = 0), and each holds exactly the file names of images/.
C19_TiersMirrorBase ==
    (pc \in {"downscaled", "reconstructed", "done"} /\ DOMAIN images_dir # {})
    => /\ DOMAIN tiers = {2 ^ i : i \in 1 .. num_downscales}
       /\ \A factor \in DOMAIN tiers : tiers[factor] = DOMAIN images_dir

\* The place of a stage in the order of a main.
Rank(stage) ==
    CASE stage = "start" -> 0
      [] stage = "sampled" -> 1
      [] stage = "copied" -> 2
      [] stage = "downscaled" -> 3
      [] stage = "reconstructed" -> 4
      [] stage = "done" -> 5
      [] stage = "failed" -> 6

AllTiers == {2 ^ i : i \in 1 .. num_downscales}

\* C20: in every run of each pipeline the stages follow one order: the
\* images are extracted or copied, then all the tiers images_{2^i} are made,
\* then the reconstruction engine runs, then the descriptor is written;
\* no step goes back, and the descriptor is never written before every
\* tier has been made.
C20_StageOrder ==
    [][/\ Rank(pc') >= Rank(pc)
       /\ images_dir' # images_dir => pc \in {"start", "sampled"}
       /\ tiers' # tiers => pc = "copied" /\ pc' \in {"downscaled", "failed"}
       /\ reconstruction' # reconstruction
             => pc = "downscaled" /\ DOMAIN tiers = AllTiers
       /\ transforms_json' # transforms_json
             => /\ pc \in {"downscaled", "reconstructed"}
                /\ DOMAIN tiers = AllTiers
                /\ \A factor \in AllTiers : tiers[factor] # {}
                /\ pipeline \in {"images", "video"}
                      => pc = "reconstructed" /\ reconstruction # <<>>]_vars

\* A run of ProcessImages with two tiers that ends with a descriptor.
C20_Witness ==
    /\ pipeline = "images"
    /\ pc = "done"
    /\ num_downscales = 2
    /\ DOMAIN tiers = {2, 4}
    /\ reconstruction # <<>>
    /\ transforms_json # <<>>

\* The top-left 3x3 block of a 4x4 matrix.
Block3(M) == [i \in 1 .. 3 |-> [j \in 1 .. 3 |-> M[i][j]]]

\* A 3x3 matrix times its transpose.
Gram3(M) ==
    [i \in 1 .. 3 |->
        [j \in 1 .. 3 |-> M[i][1] * M[j][1] + M[i][2] * M[j][2] + M[i][3] * M[j][3]]]

Identity3 == <<<<1, 0, 0>>, <<0, 1, 0>>, <<0, 0, 1>>>>

ProperRotation(R) == Gram3(R) = Identity3 /\ Det(R) = 1

\* C28: for every proper rotation R (orthonormal, determinant 1) and
\* translation t, the top-left 3x3 block of the matrix the COLMAP/OpenSfM
\* conversion outputs is orthonormal with determinant 1, and so is the
\* block of the matrix the Polycam conversion outputs from the rows of a
\* camera JSON whose rotation block is proper.
C28_RightHanded ==
    /\ (SfmPoseConverted /\ ProperRotation(call.rotation))
          => ProperRotation(Block3(result[1].transform_matrix))
    /\ (/\ call.op = "polycam_to_json"
        /\ result # <<>>
        /\ ProperRotation(Block3(call.t)))
          => ProperRotation(Block3(result[1].transform_matrix))

\* A quarter turn about the z axis with a translation, converted by
\* colmap_to_json.
C28_Witness ==
    /\ SfmPoseConverted
    /\ call.op = "colmap_to_json"
    /\ call.rotation = <<<<0, -1, 0>>, <<1, 0, 0>>, <<0, 0, 1>>>>
    /\ call.translation = <<2, 0, -1>>
    /\ Det(Block3(result[1].transform_matrix)) = 1

\* The rotation matrix of an axis-angle vector by Rodrigues' formula,
\* cos I + sin [a]x + (1 - cos) a a^T, for the vectors of AxisAngles.
Rodrigues(rotation) ==
    LET m == rotation.turns % 4
        cos == IF m = 0 THEN 1 ELSE IF m = 2 THEN -1 ELSE 0
        sin == IF m = 1 THEN 1 ELSE IF m = 3 THEN -1 ELSE 0
        a == rotation.axis.v
        cross == <<<<0, -a[3], a[2]>>, <<a[3], 0, -a[1]>>, <<-a[2], a[1], 0>>>>
    IN  [i \in 1 .. 3 |->
            [j \in 1 .. 3 |->
                (IF i = j THEN cos ELSE 0) + sin * cross[i][j]
                    + ((1 - cos) * a[i] * a[j]) \div (2 ^ rotation.axis.k)]]

\* The quaternion and the axis-angle vector stand for the same rotation.
SameRotation(qvec, rotation) == qvec2rotmat(qvec) = Rodrigues(rotation)

\* C27: colmap_to_json, given the quaternion of a rotation, and
\* opensfm_to_json, given the axis-angle vector of the same rotation (the
\* zero vector for the identity) and the same translation, produce the same
\* transform_matrix.
C27_SameConversion ==
    /\ (call.op = "colmap_to_json.qvec" /\ result # <<>>)
          => \A rotation \in AxisAngles :
                 SameRotation(call.qvec, rotation)
                     => result[1].transform_matrix
                            = OpensfmTransformMatrix(rotation, call.translation)
    /\ (call.op = "opensfm_to_json.rotation" /\ result # <<>>)
          => \A qvec \in Qvecs :
                 SameRotation(qvec, call.rotation)
                     => result[1].transform_matrix
                            = ColmapTransformMatrix(qvec, call.translation)

\* A three-quarter turn about the x axis, whose quaternion from the
\* axis-angle vector is the negative of the one COLMAP normalises to.
C27_Witness ==
    /\ call.op = "colmap_to_json.qvec"
    /\ result # <<>>
    /\ call.qvec = [k |-> 1, q |-> <<1, -1, 0, 0>>]
    /\ call.translation = <<2, 0, -1>>
    /\ SameRotation(call.qvec, [turns |-> 3, axis |-> [k |-> 0, v |-> <<1, 0, 0>>]])
    /\ AxisAngleToQvec([turns |-> 3, axis |-> [k |-> 0, v |-> <<1, 0, 0>>]])
           = [k |-> 1, q |-> <<-1, 1, 0, 0>>]
    /\ Cardinality({rotation \in AxisAngles : SameRotation(call.qvec, rotation)}) > 1

\* C21: when a command started through run_command returns non-zero, the
\* run prints the command's captured stderr and ends through sys.exit(1),
\* with verbose and without, and no descriptor is written.
C21_FailFast ==
    returncode # 0 => pc = "failed" /\ error = "exit" /\ transforms_json = <<>>

\* C22: a Record3D or Polycam run whose image directory, metadata.json or
\* camera JSON directory is absent does not complete, and at no point has
\* it copied an image, made a tier or written a descriptor.
C22_MissingInputAborts ==
    (pipeline \in {"record3d", "polycam"} /\ missing # "none")
        => /\ pc # "done"
           /\ images_dir = NoFunction
           /\ tiers = NoFunction
           /\ transforms_json = <<>>

\* C23: a run with zero frames ends through sys.exit(1) after a diagnostic
\* and writes no descriptor: a video with zero frames before any frame is
\* extracted, a Polycam image directory with zero images at "No images
\* found, exiting".
C23_ZeroFramesExit ==
    /\ (pipeline = "video" /\ returncode = 0 /\ pc # "start"
            /\ videos[1].num_frames = 0)
          => /\ pc = "failed"
             /\ error = "exit"
             /\ images_dir = NoFunction
             /\ transforms_json = <<>>
    /\ (pipeline = "polycam" /\ missing = "none" /\ data_dir = {}
            /\ pc \in {"done", "failed"})
          => /\ pc = "failed"
             /\ error = "exit"
             /\ transforms_json = <<>>

\* C24: a run of ProcessImages crops no border of the copied images,
\* whatever verbose is.
C24_VerboseOnlyLogs ==
    (pipeline = "images" /\ cropped # <<>>) => cropped[1].margin = 0

\* C25: a run of ProcessInsta360 in which both videos have frames, every
\* command succeeded and the reconstruction output exists ends normally
\* with the descriptor written.
C25_Insta360Completes ==
    (/\ pipeline = "insta360"
     /\ pc \in {"done", "failed"}
     /\ videos[1].num_frames > 0
     /\ videos[2].num_frames > 0
     /\ DOMAIN images_dir # {}
     /\ returncode = 0
     /\ reconstruction # <<>>)
        => pc = "done" /\ transforms_json # <<>>

\* C26: every frame of a written descriptor has a file_path that begins with
\* "./images/" and names a file frame_NNNNN.<ext> of images/.
C26_FilePathForm ==
    transforms_json # <<>>
        => \A i \in 1 .. Len(transforms_json[1].frames) :
               /\ transforms_json[1].frames[i].file_path.dir = "./images/"
               /\ transforms_json[1].frames[i].file_path.name \in DOMAIN images_dir

====
